---- MODULE Spec2Model ----
(***************************************************************************)
(* A model of server.py, the e-commerce backend: its request handlers as    *)
(* state machines over the document store's collections.                   *)
(*                                                                         *)
(* Every `await db....` of a handler is one atomic step on the store; a     *)
(* handler is suspended between two of them, and other requests run in      *)
(* between.  The authentication dependency (get_current_user) reads only    *)
(* the users collection and the clock; it is folded into the first step of  *)
(* the handler it guards.                                                   *)
(*                                                                         *)
(* Time is counted in days.  Identifiers (uuid4) are modelled as fresh      *)
(* integers.  Timestamps written onto documents (created_at, updated_at)    *)
(* are not modelled.                                                        *)
(***************************************************************************)
EXTENDS Integers, Sequences, FiniteSets, Bags, TLC

\* ------------------------------------------------------------------ bounds

\* request handlers that may be in progress at the same time
MaxReq == 2
\* user documents the users collection may hold
MaxUsers == 5
\* largest quantity a cart line reaches when requests run one at a time
MaxQty == 3
\* largest quantity a cart line reaches when requests interleave
MaxQtyRace == 2
\* order documents the orders collection may hold
MaxOrders == 1
\* product documents ever created when requests run one at a time
MaxProducts == 2
\* product documents ever created when requests interleave
MaxProductsRace == 1
\* review documents the reviews collection may hold
MaxReviews == 3
\* the clock stops advancing here (days)
MaxTime == 9
\* tokens handed out
MaxTokens == 5

\* timedelta(days=7)
TOKEN_DAYS == 7

Slots == 1..MaxReq

\* the (product_id, size, color) keys requests name
ItemKeys == {<<1, "M", "red">>, <<1, "M", "blue">>}
AddQuantities == {1, 2}
Emails == {"a@x", "d@x"}
Passwords == {"pw", "guess"}
NewPasswords == {"pw"}
WishedIds == {1}
Ratings == {1, 2}
ProductNames == {"tee", "hoodie"}

VARIABLES
    users,      \* db.users: sequence of user documents
    products,   \* db.products: sequence of product documents
    nextProduct,\* product identifiers handed out so far
    reviews,    \* db.reviews: bag of review documents
    carts,      \* db.carts: sequence of cart documents
    orders,     \* db.orders: sequence of order documents
    issued,     \* the tokens create_token has returned, with user and time of issue
    now,        \* the clock, in days
    raced,      \* history: the products two create_review requests overlapped on
    req,        \* per slot: the handler in progress, its position and its locals
    resp        \* the reply the step just taken sent, NoResp when it sent none

vars ==
    <<users, products, nextProduct, reviews, carts, orders, issued, now, raced, req, resp>>

authState == <<users, issued, now>>
catalogState == <<products, nextProduct, reviews, raced>>
cartState == <<carts, orders>>

\* ------------------------------------------------------------ store helpers

Range(s) == {s[i] : i \in 1..Len(s)}

RemoveAt(s, i) == [j \in 1..(Len(s) - 1) |-> IF j < i THEN s[j] ELSE s[j + 1]]

\* indices of the documents of a collection matching a filter
UsersById(uid) == {i \in 1..Len(users) : users[i].id = uid}
UsersByEmail(email) == {i \in 1..Len(users) : users[i].email = email}
CartsOf(uid) == {i \in 1..Len(carts) : carts[i].user_id = uid}
ProductsById(pid) == {i \in 1..Len(products) : products[i].id = pid}

\* the review documents matching a filter, each with its number of copies
ReviewsOf(pid) == {d \in BagToSet(reviews) : d.product_id = pid}
ReviewsBy(pid, uid) == {d \in ReviewsOf(pid) : d.user_id = uid}

\* ------------------------------------------------------------ requests

Idle ==
    [op |-> "idle", pc |-> "idle", uid |-> 0, key |-> <<>>, qty |-> 0,
     pid |-> 0, val |-> 0, has |-> FALSE, items |-> <<>>]

\* the step just taken sent no reply
NoResp ==
    [op |-> "none", uid |-> 0, key |-> <<>>, status |-> 0, detail |-> "", n |-> 0,
     lost |-> {}]

\* the reply to a request of endpoint `op` by user `uid` naming `key`: a status
\* code and the detail of the HTTPException, or the message returned
Reply(op, uid, key, status, detail) ==
    [NoResp EXCEPT !.op = op, !.uid = uid, !.key = key, !.status = status,
                   !.detail = detail]

IsIdle(r) == req[r].pc = "idle"

\* ------------------------------------------------------------ passwords and tokens

\* bcrypt.hashpw: a salted hash, from which only checkpw tells the password
hash_password(password) == <<"bcrypt", password>>

verify_password(password, hashed) == hashed = <<"bcrypt", password>>

\* jwt.encode of {'user_id', 'exp'} under JWT_SECRET: only the server signs
SignedToken(user_id, exp) == [user_id |-> user_id, exp |-> exp, sig |-> TRUE]

\* a token not signed with JWT_SECRET
BadToken == [user_id |-> 1, exp |-> 1000, sig |-> FALSE]

\* a faulty variant: the token expires after one day
create_token_OneDay(user_id) == SignedToken(user_id, now + 1)

create_token(user_id) == SignedToken(user_id, now + TOKEN_DAYS)

\* jwt.decode raises ExpiredSignatureError once the clock has passed exp.  At
\* the instant now = exp the outcome depends on the jwt library's release
\* (exp < now or exp <= now): `strict` is that choice.
TokenExpired(tok, strict) == IF strict THEN tok.exp <= now ELSE tok.exp < now

\* the outcomes of that comparison for a token
Strictness(tok) == IF tok.exp = now THEN BOOLEAN ELSE {TRUE}

get_current_user(tok, strict) ==
    IF ~tok.sig
    THEN [status |-> 401, detail |-> "Invalid token", user |-> 0]
    ELSE IF TokenExpired(tok, strict)
    THEN [status |-> 401, detail |-> "Token expired", user |-> 0]
    ELSE IF UsersById(tok.user_id) = {}
    THEN [status |-> 401, detail |-> "User not found", user |-> 0]
    ELSE [status |-> 200, detail |-> "",
          user |-> (CHOOSE i \in UsersById(tok.user_id) :
                        \A j \in UsersById(tok.user_id) : i <= j)]

\* a faulty variant: the admin flag is not looked at
get_admin_user_AnyUser(auth) == auth

get_admin_user(auth) ==
    IF auth.status # 200 THEN auth
    ELSE IF ~users[auth.user].is_admin
    THEN [status |-> 403, detail |-> "Admin access required", user |-> auth.user]
    ELSE auth

\* the tokens the users of `clients` hold
TokensOf(clients) == {i.tok : i \in {j \in issued : j.uid \in clients}}

\* ------------------------------------------------------------ cart lines

Item(key, q) == [product_id |-> key[1], size |-> key[2], color |-> key[3], quantity |-> q]

KeyOf(it) == <<it.product_id, it.size, it.color>>

SameKey(it, key) == it.product_id = key[1] /\ it.size = key[2] /\ it.color = key[3]

\* the first line of the list matching the key (the loops break there), or 0
MatchIdx(items, key) ==
    IF \E i \in 1..Len(items) : SameKey(items[i], key)
    THEN CHOOSE i \in 1..Len(items) :
            /\ SameKey(items[i], key)
            /\ \A j \in 1..(i - 1) : ~SameKey(items[j], key)
    ELSE 0

\* a faulty variant of add_to_cart's scan: the matching line's quantity is
\* overwritten
AddItemMerge_Overwrite(items, key, q) ==
    LET i == MatchIdx(items, key)
    IN  IF i # 0 THEN [items EXCEPT ![i].quantity = q]
        ELSE Append(items, Item(key, q))

\* a faulty variant of add_to_cart's scan: no scan, the line is appended
AddItemMerge_Append(items, key, q) == Append(items, Item(key, q))

\* add_to_cart's scan: add to the matching line's quantity, or append
AddItemMerge(items, key, q) ==
    LET i == MatchIdx(items, key)
    IN  IF i # 0 THEN [items EXCEPT ![i].quantity = @ + q]
        ELSE Append(items, Item(key, q))

\* a faulty variant of update_cart_item's scan: a line is appended when none
\* matches
SetQuantity_Upsert(items, key, q) ==
    LET i == MatchIdx(items, key)
    IN  IF i # 0 THEN [items EXCEPT ![i].quantity = q] ELSE Append(items, Item(key, q))

\* update_cart_item's scan: overwrite the matching line's quantity, if any
SetQuantity(items, key, q) ==
    LET i == MatchIdx(items, key)
    IN  IF i # 0 THEN [items EXCEPT ![i].quantity = q] ELSE items

\* remove_from_cart's comprehension: drop every line matching the key
RemoveKey(items, key) == SelectSeq(items, LAMBDA it : ~SameKey(it, key))

\* ------------------------------------------------------------ cart handlers

\* the dependency raised: the handler does not run
Reject(op, auth) ==
    /\ resp' = Reply(op, IF auth.user = 0 THEN 0 ELSE users[auth.user].id, <<>>,
                     auth.status, auth.detail)
    /\ UNCHANGED req

\* the handler of slot r is suspended at its second store call, holding the
\* request's key and quantity and the item list it has built
Suspend(r, op, uid, key, q, has, items) ==
    req' = [req EXCEPT ![r] = [Idle EXCEPT !.op = op, !.pc = "write", !.uid = uid,
                                           !.key = key, !.qty = q, !.has = has,
                                           !.items = items]]

\* the keys of the lines of `old` that `items` does not hold
Dropped(old, items) == {KeyOf(it) : it \in Range(old)} \ {KeyOf(it) : it \in Range(items)}

\* a faulty variant of the write: the lines the stored document holds and
\* `items` does not are kept after those of `items`
CartUpdateOne_KeepLines(uid, items, reply) ==
    IF CartsOf(uid) = {}
    THEN carts' = carts /\ resp' = reply
    ELSE \E i \in CartsOf(uid) :
            /\ carts' = [carts EXCEPT ![i].items =
                            items \o SelectSeq(carts[i].items,
                                               LAMBDA it : KeyOf(it) \in Dropped(carts[i].items, items))]
            /\ resp' = [reply EXCEPT !.lost = Dropped(carts[i].items, items)]

\* db.carts.update_one({'user_id': uid}, {'$set': {'items': items}}): one
\* matching document is rewritten, none is created
CartUpdateOne(uid, items, reply) ==
    IF CartsOf(uid) = {}
    THEN carts' = carts /\ resp' = reply
    ELSE \E i \in CartsOf(uid) :
            /\ carts' = [carts EXCEPT ![i].items = items]
            /\ resp' = [reply EXCEPT !.lost = Dropped(carts[i].items, items)]

\* GET /cart
get_cart(r, tok, strict) ==
    /\ IsIdle(r)
    /\ LET auth == get_current_user(tok, strict)
       IN  IF auth.status # 200 THEN Reject("get_cart", auth)
           ELSE LET uid == users[auth.user].id
                IN  /\ \/ /\ CartsOf(uid) = {}
                          /\ resp' = Reply("get_cart", uid, <<>>, 200, "cart")
                       \/ \E i \in CartsOf(uid) :
                            resp' = [Reply("get_cart", uid, <<>>, 200, "cart")
                                        EXCEPT !.n = Len(carts[i].items)]
                    /\ UNCHANGED req
    /\ UNCHANGED <<authState, catalogState, carts, orders>>

\* POST /cart: authentication, db.carts.find_one and the scan of the item list
add_to_cart_find(r, tok, strict, key, q, cap) ==
    /\ IsIdle(r)
    /\ LET auth == get_current_user(tok, strict)
       IN  IF auth.status # 200 THEN Reject("add_to_cart", auth)
           ELSE LET uid == users[auth.user].id
                IN  /\ \/ /\ CartsOf(uid) = {}
                          /\ Suspend(r, "add_to_cart", uid, key, q, FALSE, <<Item(key, q)>>)
                       \/ \E i \in CartsOf(uid) :
                            LET items == AddItemMerge(carts[i].items, key, q)
                            IN  /\ \A j \in 1..Len(items) : items[j].quantity <= cap
                                /\ Suspend(r, "add_to_cart", uid, key, q, TRUE, items)
                    /\ resp' = NoResp
    /\ UNCHANGED <<authState, catalogState, carts, orders>>

\* POST /cart: db.carts.insert_one or db.carts.update_one, and the reply
add_to_cart_write(r) ==
    /\ req[r].op = "add_to_cart" /\ req[r].pc = "write"
    /\ IF ~req[r].has
       THEN /\ carts' = Append(carts, [user_id |-> req[r].uid, items |-> req[r].items])
            /\ resp' = Reply("add_to_cart", req[r].uid, req[r].key, 200,
                             "Item added to cart")
       ELSE CartUpdateOne(req[r].uid, req[r].items,
                          Reply("add_to_cart", req[r].uid, req[r].key, 200,
                                "Item added to cart"))
    /\ req' = [req EXCEPT ![r] = Idle]
    /\ UNCHANGED <<authState, catalogState, orders>>

\* PUT /cart/{product_id}: authentication, db.carts.find_one and the scan
update_cart_item_find(r, tok, strict, key, q) ==
    /\ IsIdle(r)
    /\ LET auth == get_current_user(tok, strict)
       IN  IF auth.status # 200 THEN Reject("update_cart_item", auth)
           ELSE LET uid == users[auth.user].id
                IN  \/ /\ CartsOf(uid) = {}
                       /\ resp' = Reply("update_cart_item", uid, key, 404, "Cart not found")
                       /\ UNCHANGED req
                    \/ /\ \E i \in CartsOf(uid) :
                            Suspend(r, "update_cart_item", uid, key, q, TRUE,
                                    SetQuantity(carts[i].items, key, q))
                       /\ resp' = NoResp
    /\ UNCHANGED <<authState, catalogState, carts, orders>>

\* PUT /cart/{product_id}: db.carts.update_one and the reply
update_cart_item_write(r) ==
    /\ req[r].op = "update_cart_item" /\ req[r].pc = "write"
    /\ CartUpdateOne(req[r].uid, req[r].items,
                     Reply("update_cart_item", req[r].uid, req[r].key, 200, "Cart updated"))
    /\ req' = [req EXCEPT ![r] = Idle]
    /\ UNCHANGED <<authState, catalogState, orders>>

\* DELETE /cart/{product_id}: authentication, db.carts.find_one and the filter
remove_from_cart_find(r, tok, strict, key) ==
    /\ IsIdle(r)
    /\ LET auth == get_current_user(tok, strict)
       IN  IF auth.status # 200 THEN Reject("remove_from_cart", auth)
           ELSE LET uid == users[auth.user].id
                IN  \/ /\ CartsOf(uid) = {}
                       /\ resp' = Reply("remove_from_cart", uid, key, 404, "Cart not found")
                       /\ UNCHANGED req
                    \/ /\ \E i \in CartsOf(uid) :
                            Suspend(r, "remove_from_cart", uid, key, 0, TRUE,
                                    RemoveKey(carts[i].items, key))
                       /\ resp' = NoResp
    /\ UNCHANGED <<authState, catalogState, carts, orders>>

\* DELETE /cart/{product_id}: db.carts.update_one and the reply
remove_from_cart_write(r) ==
    /\ req[r].op = "remove_from_cart" /\ req[r].pc = "write"
    /\ CartUpdateOne(req[r].uid, req[r].items,
                     Reply("remove_from_cart", req[r].uid, req[r].key, 200,
                           "Item removed from cart"))
    /\ req' = [req EXCEPT ![r] = Idle]
    /\ UNCHANGED <<authState, catalogState, orders>>

\* POST /orders: authentication and db.orders.insert_one
create_order_insert(r, tok, strict) ==
    /\ IsIdle(r)
    /\ Len(orders) + Cardinality({s \in Slots : req[s].op = "create_order"}) < MaxOrders
    /\ LET auth == get_current_user(tok, strict)
       IN  IF auth.status # 200
           THEN Reject("create_order", auth) /\ UNCHANGED orders
           ELSE LET uid == users[auth.user].id
                IN  /\ orders' = Append(orders, [id |-> Len(orders) + 1, user_id |-> uid,
                                                 status |-> "pending"])
                    /\ req' = [req EXCEPT ![r] =
                            [Idle EXCEPT !.op = "create_order", !.pc = "delete",
                                         !.uid = uid, !.pid = Len(orders) + 1]]
                    /\ resp' = NoResp
    /\ UNCHANGED <<authState, catalogState, carts>>

\* POST /orders: db.carts.delete_one and the reply
create_order_delete(r) ==
    /\ req[r].op = "create_order" /\ req[r].pc = "delete"
    /\ IF CartsOf(req[r].uid) = {} THEN carts' = carts
       ELSE \E i \in CartsOf(req[r].uid) : carts' = RemoveAt(carts, i)
    /\ resp' = Reply("create_order", req[r].uid, <<>>, 200, "pending")
    /\ req' = [req EXCEPT ![r] = Idle]
    /\ UNCHANGED <<authState, catalogState, orders>>

\* ------------------------------------------------------------ catalog handlers

\* the handler of slot r is suspended in `op` at position pc
SuspendAt(r, op, pc, uid, pid, val) ==
    req' = [req EXCEPT ![r] = [Idle EXCEPT !.op = op, !.pc = pc, !.uid = uid,
                                           !.pid = pid, !.val = val]]

\* POST /products: the admin gate and db.products.insert_one
create_product(r, tok, strict, name, cap) ==
    /\ IsIdle(r)
    /\ LET auth == get_admin_user(get_current_user(tok, strict))
       IN  IF auth.status # 200
           THEN Reject("create_product", auth) /\ UNCHANGED <<products, nextProduct>>
           ELSE /\ nextProduct < cap
                /\ nextProduct' = nextProduct + 1
                /\ products' = Append(products,
                        [id |-> nextProduct + 1, name |-> name, rating |-> 0,
                         review_count |-> 0])
                /\ resp' = Reply("create_product", users[auth.user].id, <<>>, 200, "product")
                /\ UNCHANGED req
    /\ UNCHANGED <<authState, cartState, reviews, raced>>

\* PUT /products/{product_id}: the admin gate and the first db.products.find_one
update_product_find(r, tok, strict, pid, name) ==
    /\ IsIdle(r)
    /\ LET auth == get_admin_user(get_current_user(tok, strict))
       IN  IF auth.status # 200 THEN Reject("update_product", auth)
           ELSE IF ProductsById(pid) = {}
           THEN /\ resp' = Reply("update_product", users[auth.user].id, <<>>, 404,
                                 "Product not found")
                /\ UNCHANGED req
           ELSE /\ SuspendAt(r, "update_product", "update", users[auth.user].id, pid, name)
                /\ resp' = NoResp
    /\ UNCHANGED <<authState, cartState, catalogState>>

\* PUT /products/{product_id}: db.products.update_one with the submitted fields
update_product_update(r) ==
    /\ req[r].op = "update_product" /\ req[r].pc = "update"
    /\ IF ProductsById(req[r].pid) = {} THEN products' = products
       ELSE \E i \in ProductsById(req[r].pid) :
                products' = [products EXCEPT ![i].name = req[r].val]
    /\ req' = [req EXCEPT ![r].pc = "reply"]
    /\ resp' = NoResp
    /\ UNCHANGED <<authState, cartState, nextProduct, reviews, raced>>

\* PUT /products/{product_id}: the second db.products.find_one and the reply;
\* a product deleted meanwhile leaves nothing to return (a server error)
update_product_reply(r) ==
    /\ req[r].op = "update_product" /\ req[r].pc = "reply"
    /\ resp' = IF ProductsById(req[r].pid) = {}
               THEN Reply("update_product", req[r].uid, <<>>, 500, "Internal Server Error")
               ELSE Reply("update_product", req[r].uid, <<>>, 200, "product")
    /\ req' = [req EXCEPT ![r] = Idle]
    /\ UNCHANGED <<authState, cartState, catalogState>>

\* DELETE /products/{product_id}: the admin gate and db.products.delete_one
delete_product(r, tok, strict, pid) ==
    /\ IsIdle(r)
    /\ LET auth == get_admin_user(get_current_user(tok, strict))
       IN  IF auth.status # 200 THEN Reject("delete_product", auth) /\ UNCHANGED products
           ELSE /\ IF ProductsById(pid) = {}
                   THEN /\ products' = products
                        /\ resp' = Reply("delete_product", users[auth.user].id, <<>>, 404,
                                         "Product not found")
                   ELSE /\ \E i \in ProductsById(pid) : products' = RemoveAt(products, i)
                        /\ resp' = Reply("delete_product", users[auth.user].id, <<>>, 200,
                                         "Product deleted")
                /\ UNCHANGED req
    /\ UNCHANGED <<authState, cartState, nextProduct, reviews, raced>>

\* ------------------------------------------------------------ review handler

RECURSIVE SumRatings(_)
\* sum(r['rating'] for r in reviews), over a set of documents with their copies
SumRatings(docs) ==
    IF docs = {} THEN 0
    ELSE LET d == CHOOSE x \in docs : TRUE
         IN  d.rating * CopiesIn(d, reviews) + SumRatings(docs \ {d})

RECURSIVE CountReviews(_)
\* len(reviews)
CountReviews(docs) ==
    IF docs = {} THEN 0
    ELSE LET d == CHOOSE x \in docs : TRUE
         IN  CopiesIn(d, reviews) + CountReviews(docs \ {d})

\* round(total / n, 1), in tenths: Python rounds to the nearest tenth and a tie
\* to the even one.  (total / n is a double; for fewer than 20 reviews every
\* tie is a multiple of 0.25 and exact, and no other mean is close enough to a
\* tie for the double's error to matter.)
PyRound1(total, n) ==
    LET t == 10 * total
        lo == t \div n
        twice == 2 * (t % n)
    IN  IF twice < n THEN lo
        ELSE IF twice > n THEN lo + 1
        ELSE IF lo % 2 = 0 THEN lo ELSE lo + 1

\* create_review requests in progress
ReviewsInProgress(pid) == {s \in Slots : req[s].op = "create_review" /\ req[s].pid = pid}

\* POST /products/{product_id}/reviews: authentication and db.products.find_one
create_review_product(r, tok, strict, pid, rating) ==
    /\ IsIdle(r)
    /\ BagCardinality(reviews)
          + Cardinality({s \in Slots : req[s].op = "create_review"
                                        /\ req[s].pc \in {"existing", "insert"}})
          < MaxReviews
    /\ LET auth == get_current_user(tok, strict)
       IN  IF auth.status # 200
           THEN Reject("create_review", auth) /\ UNCHANGED raced
           ELSE IF ProductsById(pid) = {}
           THEN /\ resp' = Reply("create_review", users[auth.user].id, <<>>, 404,
                                 "Product not found")
                /\ UNCHANGED <<req, raced>>
           ELSE /\ SuspendAt(r, "create_review", "existing", users[auth.user].id, pid,
                             rating)
                /\ raced' = IF ReviewsInProgress(pid) # {} THEN raced \cup {pid} ELSE raced
                /\ resp' = NoResp
    /\ UNCHANGED <<authState, cartState, products, nextProduct, reviews>>

\* POST /products/{product_id}/reviews: db.reviews.find_one for the user's review
create_review_existing(r) ==
    /\ req[r].op = "create_review" /\ req[r].pc = "existing"
    /\ IF ReviewsBy(req[r].pid, req[r].uid) # {}
       THEN /\ resp' = Reply("create_review", req[r].uid, <<>>, 400,
                             "You already reviewed this product")
            /\ req' = [req EXCEPT ![r] = Idle]
       ELSE /\ resp' = NoResp
            /\ req' = [req EXCEPT ![r].pc = "insert"]
    /\ UNCHANGED <<authState, cartState, catalogState>>

\* POST /products/{product_id}/reviews: db.reviews.insert_one
create_review_insert(r) ==
    /\ req[r].op = "create_review" /\ req[r].pc = "insert"
    /\ reviews' = reviews (+) SetToBag({[product_id |-> req[r].pid, user_id |-> req[r].uid,
                                         rating |-> req[r].val]})
    /\ req' = [req EXCEPT ![r].pc = "find"]
    /\ resp' = NoResp
    /\ UNCHANGED <<authState, cartState, products, nextProduct, raced>>

\* POST /products/{product_id}/reviews: db.reviews.find of the product's
\* reviews, their sum and their number
create_review_find(r) ==
    /\ req[r].op = "create_review" /\ req[r].pc = "find"
    /\ req' = [req EXCEPT ![r].pc = "update",
                          ![r].items = <<SumRatings(ReviewsOf(req[r].pid)),
                                         CountReviews(ReviewsOf(req[r].pid))>>]
    /\ resp' = NoResp
    /\ UNCHANGED <<authState, cartState, catalogState>>

\* POST /products/{product_id}/reviews: db.products.update_one of rating and
\* review_count, and the reply
create_review_update(r) ==
    /\ req[r].op = "create_review" /\ req[r].pc = "update"
    /\ IF ProductsById(req[r].pid) = {} THEN products' = products
       ELSE \E i \in ProductsById(req[r].pid) :
                products' = [products EXCEPT
                                ![i].rating = PyRound1(req[r].items[1], req[r].items[2]),
                                ![i].review_count = req[r].items[2]]
    /\ resp' = Reply("create_review", req[r].uid, <<>>, 200, "review")
    /\ req' = [req EXCEPT ![r] = Idle]
    /\ UNCHANGED <<authState, cartState, nextProduct, reviews, raced>>

\* ------------------------------------------------------------ auth handlers

\* register requests that have found their email free and not yet inserted
RegistersInProgress == {s \in Slots : req[s].op = "register"}

\* a faulty variant of register's first step: the email is not looked up
register_find_NoLookup(r, email, password) ==
    /\ IsIdle(r)
    /\ Len(users) + Cardinality(RegistersInProgress) < MaxUsers
    /\ Cardinality(issued) + Cardinality(RegistersInProgress) < MaxTokens
    /\ req' = [req EXCEPT ![r] = [Idle EXCEPT !.op = "register", !.pc = "insert",
                                              !.key = <<email, password>>]]
    /\ resp' = NoResp
    /\ UNCHANGED <<authState, cartState, catalogState>>

\* POST /auth/register: db.users.find_one by email
register_find(r, email, password) ==
    /\ IsIdle(r)
    /\ IF UsersByEmail(email) # {}
       THEN /\ resp' = Reply("register", 0, <<email>>, 400, "Email already registered")
            /\ UNCHANGED req
       ELSE /\ Len(users) + Cardinality(RegistersInProgress) < MaxUsers
            /\ Cardinality(issued) + Cardinality(RegistersInProgress) < MaxTokens
            /\ req' = [req EXCEPT ![r] = [Idle EXCEPT !.op = "register", !.pc = "insert",
                                                      !.key = <<email, password>>]]
            /\ resp' = NoResp
    /\ UNCHANGED <<authState, cartState, catalogState>>

\* POST /auth/register: db.users.insert_one, create_token and the reply
register_insert(r) ==
    /\ req[r].op = "register" /\ req[r].pc = "insert"
    /\ LET user_id == Len(users) + 1
       IN  /\ users' = Append(users,
                    [id |-> user_id, email |-> req[r].key[1],
                     password |-> hash_password(req[r].key[2]), is_admin |-> FALSE,
                     wishlist |-> <<>>])
           /\ issued' = issued \cup {[tok |-> create_token(user_id), uid |-> user_id,
                                      at |-> now]}
           /\ resp' = Reply("register", user_id, <<req[r].key[1]>>, 200, "token")
    /\ req' = [req EXCEPT ![r] = Idle]
    /\ UNCHANGED <<now, cartState, catalogState>>

\* POST /auth/login
login(r, email, password) ==
    /\ IsIdle(r)
    /\ \/ /\ UsersByEmail(email) = {}
          /\ resp' = Reply("login", 0, <<email>>, 401, "Invalid credentials")
          /\ UNCHANGED issued
       \/ \E i \in UsersByEmail(email) :
            IF ~verify_password(password, users[i].password)
            THEN /\ resp' = Reply("login", 0, <<email>>, 401, "Invalid credentials")
                 /\ UNCHANGED issued
            ELSE LET grant == [tok |-> create_token(users[i].id), uid |-> users[i].id,
                               at |-> now]
                 IN  /\ grant \in issued \/ Cardinality(issued) < MaxTokens
                     /\ issued' = issued \cup {grant}
                     /\ resp' = Reply("login", users[i].id, <<email>>, 200, "token")
    /\ UNCHANGED <<users, now, req, cartState, catalogState>>

\* GET /auth/me
get_me(r, tok, strict) ==
    /\ IsIdle(r)
    /\ LET auth == get_current_user(tok, strict)
       IN  IF auth.status # 200 THEN Reject("get_me", auth)
           ELSE /\ resp' = Reply("get_me", users[auth.user].id, <<>>, 200, "user")
                /\ UNCHANGED req
    /\ UNCHANGED <<authState, cartState, catalogState>>

\* POST /wishlist/{product_id}: authentication (the user document read there
\* holds the wishlist) and the membership test
add_to_wishlist_auth(r, tok, strict, pid) ==
    /\ IsIdle(r)
    /\ LET auth == get_current_user(tok, strict)
       IN  IF auth.status # 200 THEN Reject("add_to_wishlist", auth)
           ELSE LET user == users[auth.user]
                IN  IF pid \in Range(user.wishlist)
                    THEN /\ resp' = Reply("add_to_wishlist", user.id, <<>>, 200,
                                          "Added to wishlist")
                         /\ UNCHANGED req
                    ELSE /\ req' = [req EXCEPT ![r] =
                                [Idle EXCEPT !.op = "add_to_wishlist", !.pc = "update",
                                             !.uid = user.id, !.pid = pid,
                                             !.items = Append(user.wishlist, pid)]]
                         /\ resp' = NoResp
    /\ UNCHANGED <<authState, cartState, catalogState>>

\* DELETE /wishlist/{product_id}: authentication and the membership test;
\* list.remove drops the first occurrence
remove_from_wishlist_auth(r, tok, strict, pid) ==
    /\ IsIdle(r)
    /\ LET auth == get_current_user(tok, strict)
       IN  IF auth.status # 200 THEN Reject("remove_from_wishlist", auth)
           ELSE LET user == users[auth.user]
                IN  IF pid \notin Range(user.wishlist)
                    THEN /\ resp' = Reply("remove_from_wishlist", user.id, <<>>, 200,
                                          "Removed from wishlist")
                         /\ UNCHANGED req
                    ELSE LET first == CHOOSE i \in 1..Len(user.wishlist) :
                                        /\ user.wishlist[i] = pid
                                        /\ \A j \in 1..(i - 1) : user.wishlist[j] # pid
                         IN  /\ req' = [req EXCEPT ![r] =
                                    [Idle EXCEPT !.op = "remove_from_wishlist",
                                                 !.pc = "update", !.uid = user.id,
                                                 !.pid = pid,
                                                 !.items = RemoveAt(user.wishlist, first)]]
                             /\ resp' = NoResp
    /\ UNCHANGED <<authState, cartState, catalogState>>

\* POST and DELETE /wishlist/{product_id}: db.users.update_one of the wishlist
\* and the reply
wishlist_update(r) ==
    /\ req[r].op \in {"add_to_wishlist", "remove_from_wishlist"} /\ req[r].pc = "update"
    /\ IF UsersById(req[r].uid) = {} THEN users' = users
       ELSE \E i \in UsersById(req[r].uid) :
                users' = [users EXCEPT ![i].wishlist = req[r].items]
    /\ resp' = Reply(req[r].op, req[r].uid, <<>>, 200,
                     IF req[r].op = "add_to_wishlist" THEN "Added to wishlist"
                     ELSE "Removed from wishlist")
    /\ req' = [req EXCEPT ![r] = Idle]
    /\ UNCHANGED <<issued, now, cartState, catalogState>>

\* a day passes
Tick ==
    /\ now < MaxTime
    /\ now' = now + 1
    /\ resp' = NoResp
    /\ UNCHANGED <<users, issued, req, cartState, catalogState>>

\* ------------------------------------------------------------ initial state

\* The store holds an administrator (no endpoint creates one) and two
\* customers; each has logged in at day 0.
Init ==
    /\ users = << [id |-> 1, email |-> "a@x", password |-> hash_password("pw"),
                   is_admin |-> TRUE, wishlist |-> <<>>],
                  [id |-> 2, email |-> "b@x", password |-> hash_password("pw"),
                   is_admin |-> FALSE, wishlist |-> <<>>],
                  [id |-> 3, email |-> "c@x", password |-> hash_password("pw"),
                   is_admin |-> FALSE, wishlist |-> <<>>] >>
    /\ products = <<>>
    /\ nextProduct = 0
    /\ reviews = EmptyBag
    /\ carts = <<>>
    /\ orders = <<>>
    /\ now = 0
    /\ issued = {[tok |-> create_token(u), uid |-> u, at |-> 0] : u \in {1, 2, 3}}
    /\ raced = {}
    /\ req = [r \in Slots |-> Idle]
    /\ resp = NoResp

\* ------------------------------------------------------------ cart service

\* the first step of a request of a cart endpoint: the credentials presented,
\* the keys named and the quantities given are drawn from the sets given
CartFirstStep(slots, toks, addQ, updQ, cap) ==
    \E r \in slots, tok \in toks : \E strict \in Strictness(tok) :
        \/ get_cart(r, tok, strict)
        \/ \E key \in ItemKeys, q \in addQ : add_to_cart_find(r, tok, strict, key, q, cap)
        \/ \E key \in ItemKeys, q \in updQ : update_cart_item_find(r, tok, strict, key, q)
        \/ \E key \in ItemKeys : remove_from_cart_find(r, tok, strict, key)

OrderFirstStep(slots, toks) ==
    \E r \in slots, tok \in toks : \E strict \in Strictness(tok) :
        create_order_insert(r, tok, strict)

CartWriteStep ==
    \E r \in Slots :
        \/ add_to_cart_write(r)
        \/ update_cart_item_write(r)
        \/ remove_from_cart_write(r)

CartLaterStep ==
    \/ CartWriteStep
    \/ \E r \in Slots : create_order_delete(r)

NoneInProgress == \A r \in Slots : IsIdle(r)

\* requests that run one after another are all served in the first slot
FirstSlot == {1}

\* Requests of one customer to the cart and order endpoints, interleaved at
\* every await.
RaceClients == TokensOf({2})

CartNext ==
    \/ CartFirstStep(Slots, RaceClients, {1}, {MaxQtyRace}, MaxQtyRace)
    \/ OrderFirstStep(Slots, RaceClients)
    \/ CartLaterStep

SpecCart == Init /\ [][CartNext]_vars

\* The same, with every order placed while no other request is in progress
\* and no request starting before the order has been answered.
CartOrderAloneNext ==
    \/ /\ \A r \in Slots : req[r].op # "create_order"
       /\ CartFirstStep(Slots, RaceClients, {1}, {MaxQtyRace}, MaxQtyRace)
    \/ NoneInProgress /\ OrderFirstStep(Slots, RaceClients)
    \/ CartLaterStep

SpecCartOrderAlone == Init /\ [][CartOrderAloneNext]_vars

\* Requests of both users to the cart endpoints, valid credentials or not,
\* each run to its reply before the next one starts.
SerialClients == TokensOf({1, 2}) \cup {BadToken}

CartSerialNext ==
    \/ /\ NoneInProgress
       /\ CartFirstStep(FirstSlot, SerialClients, AddQuantities, 1..MaxQty, MaxQty)
    \/ CartWriteStep

SpecCartSerial == Init /\ [][CartSerialNext]_vars

\* ------------------------------------------------------------ review service

\* the first step of a request of a product endpoint, for at most `cap`
\* products
CatalogFirstStep(slots, toks, cap) ==
    \E r \in slots, tok \in toks : \E strict \in Strictness(tok) :
        \/ \E name \in ProductNames : create_product(r, tok, strict, name, cap)
        \/ \E pid \in 1..cap, name \in ProductNames :
                update_product_find(r, tok, strict, pid, name)
        \/ \E pid \in 1..cap : delete_product(r, tok, strict, pid)

ReviewFirstStep(slots, toks, cap, ratings) ==
    \E r \in slots, tok \in toks : \E strict \in Strictness(tok) :
        \E pid \in 1..cap, rating \in ratings :
            create_review_product(r, tok, strict, pid, rating)

CatalogLaterStep ==
    \E r \in Slots :
        \/ update_product_update(r)
        \/ update_product_reply(r)

ReviewLaterStep ==
    \E r \in Slots :
        \/ create_review_existing(r)
        \/ create_review_insert(r)
        \/ create_review_find(r)
        \/ create_review_update(r)

\* Requests of the three users to the product and review endpoints,
\* interleaved at every await.
ReviewNext ==
    \/ CatalogFirstStep(Slots, TokensOf({1}), MaxProductsRace)
    \/ ReviewFirstStep(Slots, TokensOf({1, 2, 3}), MaxProductsRace, Ratings)
    \/ CatalogLaterStep
    \/ ReviewLaterStep

SpecReview == Init /\ [][ReviewNext]_vars

\* ------------------------------------------------------------ auth service

\* the first step of a request of an auth or wishlist endpoint
AuthFirstStep(slots, toks, wishers) ==
    \E r \in slots :
        \/ \E email \in Emails, password \in NewPasswords :
                register_find(r, email, password)
        \/ \E email \in Emails, password \in Passwords : login(r, email, password)
        \/ \E tok \in toks : \E strict \in Strictness(tok) : get_me(r, tok, strict)
        \/ \E tok \in wishers : \E strict \in Strictness(tok) :
            \/ \E pid \in WishedIds : add_to_wishlist_auth(r, tok, strict, pid)
            \/ \E pid \in WishedIds : remove_from_wishlist_auth(r, tok, strict, pid)

AuthLaterStep ==
    \E r \in Slots :
        \/ register_insert(r)
        \/ wishlist_update(r)

AllTokens == {i.tok : i \in issued} \cup {BadToken}

\* Requests to the auth and wishlist endpoints, interleaved at every await.
AuthNext ==
    \/ AuthFirstStep(Slots, AllTokens, TokensOf({2}))
    \/ AuthLaterStep

SpecAuth == Init /\ [][AuthNext]_vars

\* Requests to the auth and wishlist endpoints, each run to its reply before
\* the next one starts, while the days pass.
TokenNext ==
    \/ NoneInProgress /\ AuthFirstStep(FirstSlot, AllTokens, TokensOf({2}))
    \/ AuthLaterStep
    \/ Tick

SpecToken == Init /\ [][TokenNext]_vars

\* Requests of every user, valid credentials or not, to the endpoints that
\* write users or products, each run to its reply before the next one starts.
AdminNext ==
    \/ NoneInProgress /\ AuthFirstStep(FirstSlot, AllTokens, TokensOf({1, 2}))
    \/ NoneInProgress /\ CatalogFirstStep(FirstSlot, AllTokens, MaxProducts)
    \/ /\ NoneInProgress
       /\ ReviewFirstStep(FirstSlot, TokensOf({2}) \cup {BadToken}, MaxProducts, {2})
    \/ AuthLaterStep
    \/ CatalogLaterStep
    \/ ReviewLaterStep

SpecAdmin == Init /\ [][AdminNext]_vars

\* ------------------------------------------------------------ cart properties

KeysOfList(items) == {KeyOf(it) : it \in Range(items)}

LinesWithKey(items, key) == {j \in 1..Len(items) : KeyOf(items[j]) = key}

\* slot r's handler `op` takes its last step and replies
Completes(r, op) == req[r].op = op /\ req'[r] = Idle

\* `new` is `old` with quantity q added for the key: on the one line holding
\* the key, or else on a line appended at the end; every other line as it was
MergedInto(old, new, key, q) ==
    IF key \in KeysOfList(old)
    THEN /\ Len(new) = Len(old)
         /\ Cardinality(LinesWithKey(new, key)) = 1
         /\ \A j \in 1..Len(old) :
                IF KeyOf(old[j]) = key
                THEN KeyOf(new[j]) = key /\ new[j].quantity = old[j].quantity + q
                ELSE new[j] = old[j]
    ELSE /\ Len(new) = Len(old) + 1
         /\ \A j \in 1..Len(old) : new[j] = old[j]
         /\ KeyOf(new[Len(new)]) = key /\ new[Len(new)].quantity = q

\* every cart document but the user's is as it was, in place
OtherCartsKept(uid) ==
    /\ Len(carts') >= Cardinality({i \in 1..Len(carts) : carts[i].user_id # uid})
    /\ \A i \in 1..Len(carts) : carts[i].user_id # uid => carts'[i] = carts[i]

\* C2 -- requests run one after another: an add_to_cart for a key the user's
\* cart holds with quantity q1 leaves exactly one line for that key, with
\* quantity q1 + q2; for a key the cart does not hold it appends one line;
\* with no cart it creates one holding just that line; the other lines and
\* the other users' carts are as they were.
C2_AddMerges ==
    [][\A r \in Slots :
        Completes(r, "add_to_cart") =>
            LET uid == req[r].uid
                key == req[r].key
                q == req[r].qty
            IN  /\ resp'.status = 200
                /\ OtherCartsKept(uid)
                /\ Cardinality({i \in 1..Len(carts') : carts'[i].user_id = uid}) = 1
                /\ IF CartsOf(uid) = {}
                   THEN \A i \in 1..Len(carts') :
                            carts'[i].user_id = uid => carts'[i].items = <<Item(key, q)>>
                   ELSE \A i \in CartsOf(uid) :
                            MergedInto(carts[i].items, carts'[i].items, key, q)]_vars

\* an add_to_cart has just merged quantities 1 and 2 into the single line of
\* the only cart
C2_Witness ==
    /\ resp.op = "add_to_cart" /\ resp.status = 200
    /\ Len(carts) = 1
    /\ Len(carts[1].items) = 1
    /\ carts[1].items[1].quantity = 3
    /\ KeyOf(carts[1].items[1]) = resp.key

\* C3 -- every stored cart document holds at most one line per
\* (product_id, size, color), whatever the interleaving of the requests.
C3_CartKeysUnique ==
    \A i \in 1..Len(carts) :
        \A a, b \in 1..Len(carts[i].items) :
            a # b => KeyOf(carts[i].items[a]) # KeyOf(carts[i].items[b])

\* two add_to_cart requests for the same key are suspended before their writes
\* while the stored cart holds two lines
C3_Witness ==
    /\ \E i \in 1..Len(carts) : Len(carts[i].items) = 2
    /\ \E r, t \in Slots :
        /\ r # t
        /\ req[r].op = "add_to_cart" /\ req[t].op = "add_to_cart"
        /\ req[r].uid = req[t].uid /\ req[r].key = req[t].key

\* C7 -- when a create_order completes, with no add_to_cart of
\* the user overlapping it, the order is stored as pending and the user has
\* no cart document left.
C7_OrderClearsCart ==
    [][\A r \in Slots :
        Completes(r, "create_order") =>
            /\ \E o \in 1..Len(orders') :
                /\ orders'[o].id = req[r].pid
                /\ orders'[o].user_id = req[r].uid
                /\ orders'[o].status = "pending"
            /\ \A i \in 1..Len(carts') : carts'[i].user_id # req[r].uid]_vars

\* C9 -- last write wins: the list an add_to_cart builds is the merge of its
\* item into the list it read, and its write replaces the whole list of the
\* stored document by it, whatever the document holds by then.
C9_LastWriteWins ==
    [][\A r \in Slots :
        /\ (IsIdle(r) /\ req'[r].op = "add_to_cart" /\ req'[r].has) =>
                \E i \in CartsOf(req'[r].uid) :
                    MergedInto(carts[i].items, req'[r].items, req'[r].key, req'[r].qty)
        /\ (Completes(r, "add_to_cart") /\ req[r].has /\ CartsOf(req[r].uid) # {}) =>
                /\ resp'.status = 200
                /\ Len(carts') = Len(carts)
                /\ \E i \in CartsOf(req[r].uid) :
                    /\ carts'[i].items = req[r].items
                    /\ \A j \in 1..Len(carts) : j # i => carts'[j] = carts[j]]_vars

\* the only cart document there has ever been has just been rewritten by an
\* add_to_cart, and a line another add_to_cart had appended to it since this
\* one read it is gone
C9_Witness ==
    /\ resp.op = "add_to_cart" /\ resp.status = 200
    /\ resp.lost # {}
    /\ orders = <<>>
    /\ \A r \in Slots : req[r].op # "create_order"
    /\ Len(carts) = 1
    /\ resp.key \in KeysOfList(carts[1].items)
    /\ \A k \in resp.lost : k \notin KeysOfList(carts[1].items)

\* C10 -- requests run one after another: update_cart_item for a user with no
\* cart replies 404 and stores nothing; with a cart it replies success, and
\* the stored list is the list before with the matching line's quantity
\* overwritten, or the very same list when no line matches.
C10_UpdateItem ==
    [][/\ (resp'.op = "update_cart_item" /\ resp'.status = 404) =>
            /\ CartsOf(resp'.uid) = {}
            /\ carts' = carts
       /\ \A r \in Slots :
            /\ (IsIdle(r) /\ req'[r].op = "update_cart_item") => CartsOf(req'[r].uid) # {}
            /\ Completes(r, "update_cart_item") =>
                /\ resp'.status = 200 /\ resp'.detail = "Cart updated"
                /\ Len(carts') = Len(carts)
                /\ \A i \in 1..Len(carts) :
                    IF carts[i].user_id # req[r].uid THEN carts'[i] = carts[i]
                    ELSE LET old == carts[i].items
                             new == carts'[i].items
                         IN  /\ Len(new) = Len(old)
                             /\ \A j \in 1..Len(old) :
                                  IF KeyOf(old[j]) = req[r].key
                                  THEN new[j] = [old[j] EXCEPT !.quantity = req[r].qty]
                                  ELSE new[j] = old[j]
                             /\ req[r].key \notin KeysOfList(old) => new = old]_vars

\* an update_cart_item has just replied success for a key the user's cart,
\* which is not empty, does not hold
C10_Witness ==
    /\ resp.op = "update_cart_item" /\ resp.status = 200
    /\ \E i \in 1..Len(carts) :
        /\ carts[i].user_id = resp.uid
        /\ carts[i].items # <<>>
        /\ resp.key \notin KeysOfList(carts[i].items)

\* ------------------------------------------------------------ review properties

NoReviewInProgress == \A r \in Slots : req[r].op # "create_review"

\* the product's stored rating and review_count are those of its stored reviews
AggregateOf(p) ==
    LET docs == ReviewsOf(p.id)
        n == CountReviews(docs)
        total == SumRatings(docs)
        tenths == 10 * total
    IN  IF n = 0 THEN p.rating = 0 /\ p.review_count = 0
        ELSE /\ p.review_count = n
             \* the tenth nearest to total / n, the even one of two equally near
             /\ 2 * n * p.rating - 2 * tenths \in (0 - n)..n
             /\ (2 * n * p.rating - 2 * tenths \in {0 - n, n}) => p.rating % 2 = 0

\* the product's stored reviews are by different users
ByDifferentUsers(pid) == \A d \in ReviewsOf(pid) : CountReviews(ReviewsBy(pid, d.user_id)) = 1

C1_AggregateConsistentUnraced ==
    NoReviewInProgress =>
        \A i \in 1..Len(products) :
            products[i].id \notin raced => AggregateOf(products[i])

\* three requests that never overlapped have left a product three reviews
\* whose mean is no multiple of a tenth
C1_Witness ==
    /\ NoReviewInProgress
    /\ \E i \in 1..Len(products) :
        /\ products[i].id \notin raced
        /\ products[i].review_count = 3
        /\ products[i].rating \in {13, 17}

\* C4 -- the reviews collection holds at most one review per
\* (product_id, user_id), whatever the interleaving of the requests.
C4_OneReviewPerUser ==
    \A pid \in 1..MaxProducts, uid \in 1..MaxUsers :
        CountReviews(ReviewsBy(pid, uid)) <= 1

\* ------------------------------------------------------------ auth properties

\* C5 -- a register that starts when a user with its email is stored replies
\* 400 "Email already registered" at once: it never goes on to insert, hands
\* out no token and leaves the users collection as it was.
C5_DuplicateEmail ==
    [][\A i \in 1..Len(users) :
        \* the step is the first of a register for the email of user i
        ( \/ \E r \in Slots : /\ IsIdle(r) /\ req'[r].op = "register"
                                /\ req'[r].key[1] = users[i].email
          \/ resp'.op = "register" /\ resp'.key = <<users[i].email>> /\ req' = req ) =>
            /\ resp'.status = 400 /\ resp'.detail = "Email already registered"
            /\ req' = req
            /\ users' = users
            /\ issued' = issued]_vars

\* a register has just been refused for the email an earlier register stored
C5_Witness ==
    /\ resp.op = "register" /\ resp.status = 400
    /\ \E i \in 1..Len(users) :
        /\ users[i].id > 3
        /\ resp.key = <<users[i].email>>

\* C6 -- a token create_token returned for a user at time t authenticates to
\* that user at every time before t + 7 days, whatever has happened since, and
\* is refused as expired at every time after t + 7 days.
C6_TokenLifetime ==
    \A i \in issued : \A strict \in BOOLEAN :
        LET auth == get_current_user(i.tok, strict)
        IN  /\ now < i.at + 7 => auth.status = 200 /\ users[auth.user].id = i.uid
            /\ now > i.at + 7 => auth.status = 401 /\ auth.detail = "Token expired"

\* get_me has just refused as expired a token handed out after day 0, and
\* another token still authenticates
C6_Witness ==
    /\ resp.op = "get_me" /\ resp.status = 401 /\ resp.detail = "Token expired"
    /\ \E i \in issued : i.at > 0 /\ now > i.at + 7
    /\ \E i \in issued : now < i.at + 7

\* ------------------------------------------------------------ catalog properties

IsAdminId(uid) == \E i \in UsersById(uid) : users[i].is_admin

\* the products with the fields no review derives
Catalog(ps) == [i \in 1..Len(ps) |-> [id |-> ps[i].id, name |-> ps[i].name]]

\* C8 -- no step changes a user's admin flag, and a new user has none; a step
\* that creates or deletes a product or changes its submitted fields is a
\* step of an administrator's request; a product request of an authenticated
\* user who is no administrator is refused with 403 and changes no product.
C8_AdminOnly ==
    [][/\ Len(users') >= Len(users)
       /\ \A i \in 1..Len(users') :
            users'[i].is_admin = (i <= Len(users) /\ users[i].is_admin)
       /\ Catalog(products') # Catalog(products) =>
            \/ /\ resp'.op \in {"create_product", "delete_product"}
               /\ resp'.status = 200
               /\ IsAdminId(resp'.uid)
            \/ \E r \in Slots :
                /\ req[r].op = "update_product" /\ req[r].pc = "update"
                /\ req'[r].pc = "reply"
                /\ IsAdminId(req[r].uid)
       /\ ( /\ resp'.op \in {"create_product", "update_product", "delete_product"}
            /\ resp'.uid # 0
            /\ ~IsAdminId(resp'.uid) ) =>
                /\ resp'.status = 403
                /\ products' = products
       /\ \A r \in Slots : req'[r].op = "update_product" => IsAdminId(req'[r].uid)]_vars

\* a user who registered through the API has just been refused the deletion
\* of a stored product
C8_Witness ==
    /\ resp.op = "delete_product" /\ resp.status = 403
    /\ resp.uid > 3
    /\ products # <<>>

====
